---- MODULE Spec2Model ----
(***************************************************************************)
(* GridDown HTTP server (scripts/griddown-server.py): the cache-control    *)
(* header policy of GridDownHandler.end_headers, the access-log filter of  *)
(* GridDownHandler.log_message and the startup sequence of main.           *)
(*                                                                         *)
(* Strings the code inspects character by character (request paths, file   *)
(* names, the status field of a log call) are sequences of one-character   *)
(* strings; os.path is posixpath (the script is a POSIX script).           *)
(***************************************************************************)
EXTENDS Integers, Sequences, FiniteSets

\* ------------------------------------------------------------------ bounds

\* Longest request path body enumerated exhaustively over Alphabet.
MaxLen == 4

\* ------------------------------------------------------- string primitives

Min(S) == CHOOSE x \in S : \A y \in S : x <= y

Max(S) == CHOOSE x \in S : \A y \in S : x >= y

\* str.split(sep): the pieces of s between occurrences of the character sep.
RECURSIVE Split(_, _)
Split(s, sep) ==
  LET hits == {i \in 1..Len(s) : s[i] = sep}
  IN  IF hits = {} THEN <<s>>
      ELSE <<SubSeq(s, 1, Min(hits) - 1)>>
             \o Split(SubSeq(s, Min(hits) + 1, Len(s)), sep)

\* str.rfind(c), 1-based: the last index of c in s, 0 when there is none.
rfind(s, c) ==
  LET hits == {i \in 1..Len(s) : s[i] = c}
  IN  IF hits = {} THEN 0 ELSE Max(hits)

\* posixpath.basename: i = p.rfind('/') + 1; return p[i:]
basename(p) == SubSeq(p, rfind(p, "/") + 1, Len(p))

\* Variant of splitext: the extension starts at the first dot.
splitext_first_dot(p) ==
  LET hits == {i \in 1..Len(p) : p[i] = "."}
  IN  IF hits = {} THEN <<p, <<>> >>
      ELSE <<SubSeq(p, 1, Min(hits) - 1), SubSeq(p, Min(hits), Len(p))>>

\* posixpath.splitext (genericpath._splitext with sep '/', extsep '.'):
\* the extension starts at the last dot after the last separator, unless every
\* character between the separator and that dot is itself a dot.
splitext(p) ==
  LET sepIndex == rfind(p, "/")
      dotIndex == rfind(p, ".")
  IN  IF dotIndex > sepIndex
         /\ \E k \in (sepIndex + 1)..(dotIndex - 1) : p[k] # "."
      THEN <<SubSeq(p, 1, dotIndex - 1), SubSeq(p, dotIndex, Len(p))>>
      ELSE <<p, <<>> >>

\* ------------------------------------------------------------- constants

SW_JS == <<"s", "w", ".", "j", "s">>

MANIFEST_JSON == <<"m", "a", "n", "i", "f", "e", "s", "t", ".", "j", "s", "o", "n">>

INDEX_HTML == <<"i", "n", "d", "e", "x", ".", "h", "t", "m", "l">>

\* NO_CACHE_FILES = {'sw.js', 'manifest.json'}
NO_CACHE_FILES_0 == {SW_JS, MANIFEST_JSON}

\* REVALIDATE_EXTENSIONS = {'.js', '.css', '.html'}
REVALIDATE_EXTENSIONS_0 ==
  {<<".", "j", "s">>, <<".", "c", "s", "s">>, <<".", "h", "t", "m", "l">>}

Header(n, v) == [name |-> n, value |-> v]

\* The header lines of a response, as they stand in the buffer and on the wire:
\* the status line, one line per header, and the blank line ending the block.
STATUS == ":status"

END_OF_HEADERS == ":end"

POLICY_HEADER_NAMES == {"Cache-Control", "Pragma", "Expires"}

\* ------------------------------------------- GridDownHandler.end_headers

\* BaseHTTPRequestHandler.send_header: one more line in _headers_buffer.
send_header(buffer, keyword, value) == Append(buffer, Header(keyword, value))

\* BaseHTTPRequestHandler.end_headers, as called through super(): the blank
\* line is appended and the buffer is flushed to the connection.
super_end_headers(h) ==
  [buffer |-> <<>>,
   wfile  |-> h.wfile \o Append(h.buffer, Header(END_OF_HEADERS, ""))]

\* Variant of request_basename: the last segment is taken before the query
\* string and fragment are removed.
basename_before_strip(path) ==
  Split(Split(basename(path), "?")[1], "#")[1]

\* basename = os.path.basename(self.path.split('?')[0].split('#')[0])
request_basename(path) ==
  basename(Split(Split(path, "?")[1], "#")[1])

\* _, ext = os.path.splitext(basename)
request_ext(name) == splitext(name)[2]

\* Variants of inject: matching that ignores case, the extension tested
\* first, and no extension rule.

\* str.lower on the capital letters the request paths of the model use.
LowerChar(c) ==
  CASE c = "A" -> "a" [] c = "J" -> "j" [] c = "M" -> "m" [] c = "S" -> "s"
    [] c = "W" -> "w" [] OTHER -> c

lower(str) == [i \in 1..Len(str) |-> LowerChar(str[i])]

inject_ignoring_case(buffer, name, ext, no_cache, revalidate) ==
  IF lower(name) \in no_cache
  THEN send_header(
         send_header(
           send_header(buffer, "Cache-Control", "no-cache, no-store, must-revalidate"),
           "Pragma", "no-cache"),
         "Expires", "0")
  ELSE IF lower(ext) \in revalidate
  THEN send_header(buffer, "Cache-Control", "no-cache")
  ELSE buffer

inject_extension_first(buffer, name, ext, no_cache, revalidate) ==
  IF ext \in revalidate
  THEN send_header(buffer, "Cache-Control", "no-cache")
  ELSE IF name \in no_cache
  THEN send_header(
         send_header(
           send_header(buffer, "Cache-Control", "no-cache, no-store, must-revalidate"),
           "Pragma", "no-cache"),
         "Expires", "0")
  ELSE buffer

inject_no_revalidate(buffer, name, ext, no_cache, revalidate) ==
  IF name \in no_cache
  THEN send_header(
         send_header(
           send_header(buffer, "Cache-Control", "no-cache, no-store, must-revalidate"),
           "Pragma", "no-cache"),
         "Expires", "0")
  ELSE buffer

\* The if / elif of end_headers: the send_header calls it makes on `buffer`.
inject(buffer, name, ext, no_cache, revalidate) ==
  IF name \in no_cache
  THEN send_header(
         send_header(
           send_header(buffer, "Cache-Control", "no-cache, no-store, must-revalidate"),
           "Pragma", "no-cache"),
         "Expires", "0")
  ELSE IF ext \in revalidate
  THEN send_header(buffer, "Cache-Control", "no-cache")
  ELSE buffer

\* Variant of end_headers: the base class finishes the block first.
end_headers_super_first(h, path, no_cache, revalidate) ==
  LET name == request_basename(path)
      done == super_end_headers(h)
  IN  [done EXCEPT
         !.buffer = inject(done.buffer, name, request_ext(name), no_cache, revalidate)]

\* GridDownHandler.end_headers on the handler h = [buffer, wfile] serving
\* `path`: the policy headers are sent, then the base class finishes the block.
end_headers(h, path, no_cache, revalidate) ==
  LET name == request_basename(path)
      ext  == request_ext(name)
  IN  super_end_headers(
        [h EXCEPT !.buffer = inject(h.buffer, name, ext, no_cache, revalidate)])

\* ------------------------------------------- GridDownHandler.log_message

\* A positional argument of a log call: its Python type and its text.
StrArg(chars) == [t |-> "str", v |-> chars]

IntArg(chars) == [t |-> "int", v |-> chars]

\* str.startswith(('4', '5'))
startswith_4_5(s) == Len(s) > 0 /\ s[1] \in {"4", "5"}

\* Variant of log_message: the status is read from the first argument.
log_message_first_arg(format, args) ==
  LET status == IF Len(args) > 0 THEN args[1] ELSE StrArg(<<>>)
  IN  status.t = "str" /\ startswith_4_5(status.v)

\* GridDownHandler.log_message: TRUE when the call reaches the base class's
\* log_message, which writes the line to stderr.
log_message(format, args) ==
  LET status == IF Len(args) > 1 THEN args[2] ELSE StrArg(<<>>)
  IN  status.t = "str" /\ startswith_4_5(status.v)

\* http.server.SimpleHTTPRequestHandler.log_message, the binding main installs
\* under --verbose: every call writes a line.
base_log_message(format, args) == TRUE

\* --------------------------- the inherited static server (http.server)

\* str(code) of an HTTP status code: its decimal digits.
Digit(d) ==
  CASE d = 0 -> "0" [] d = 1 -> "1" [] d = 2 -> "2" [] d = 3 -> "3" [] d = 4 -> "4"
    [] d = 5 -> "5" [] d = 6 -> "6" [] d = 7 -> "7" [] d = 8 -> "8" [] d = 9 -> "9"

RECURSIVE Str(_)
Str(n) == IF n < 10 THEN <<Digit(n)>> ELSE Append(Str(n \div 10), Digit(n % 10))

\* The status line send_response_only puts in the buffer.
StatusLine(code) ==
  CASE code = 200 -> "200 OK"
    [] code = 301 -> "301 Moved Permanently"
    [] code = 304 -> "304 Not Modified"
    [] code = 404 -> "404 File not found"
    [] code = 501 -> "501 Unsupported method"

\* urllib.parse.unquote on the escapes the request paths of the model use.
Unescape(h1, h2) ==
  CASE h1 = "2" /\ h2 \in {"E", "e"} -> "."
    [] h1 = "2" /\ h2 \in {"F", "f"} -> "/"
    [] OTHER -> ""

RECURSIVE unquote(_)
unquote(s) ==
  IF s = <<>> THEN <<>>
  ELSE IF s[1] = "%" /\ Len(s) >= 3 /\ Unescape(s[2], s[3]) # ""
  THEN <<Unescape(s[2], s[3])>> \o unquote(SubSeq(s, 4, Len(s)))
  ELSE <<s[1]>> \o unquote(Tail(s))

\* posixpath.normpath of an absolute path, then translate_path's filter: the
\* components left after dropping '' and '.', '..' removing the one before it.
RECURSIVE normwords(_, _)
normwords(parts, acc) ==
  IF parts = <<>> THEN acc
  ELSE IF parts[1] \in {<<>>, <<".">>} THEN normwords(Tail(parts), acc)
  ELSE IF parts[1] = <<".", ".">>
  THEN normwords(Tail(parts), IF acc = <<>> THEN acc ELSE SubSeq(acc, 1, Len(acc) - 1))
  ELSE normwords(Tail(parts), Append(acc, parts[1]))

\* SimpleHTTPRequestHandler.translate_path: the path below the serve directory,
\* as its components, and whether the URL path ended with a slash.
translate_path(path) ==
  LET stripped == Split(Split(path, "?")[1], "#")[1]
  IN  [words |-> normwords(Split(unquote(stripped), "/"), <<>>),
       trailing_slash |-> Len(stripped) > 0 /\ stripped[Len(stripped)] = "/"]

\* os.path.isdir below the serve directory, whose regular files are `files`.
isdir(files, words) ==
  \E f \in files : Len(f) > Len(words) /\ SubSeq(f, 1, Len(words)) = words

\* What the inherited handler does with a request before it calls end_headers:
\* the status it sends, the file whose content it serves (<<>> when none), the
\* headers it sends itself, and whether the reply went through send_error.
Reply(code, served, headers, is_error) ==
  [code |-> code, served |-> served, headers |-> headers, is_error |-> is_error]

send_error(code) ==
  Reply(code, <<>>, <<"Connection", "Content-Type", "Content-Length">>, TRUE)

\* SimpleHTTPRequestHandler.send_head (do_GET and do_HEAD).
send_head(path, files, not_modified) ==
  LET t     == translate_path(path)
      index == Append(t.words, INDEX_HTML)
      file  == IF isdir(files, t.words) THEN index ELSE t.words
  IN  IF isdir(files, t.words) /\ ~t.trailing_slash
      THEN Reply(301, <<>>, <<"Location", "Content-Length">>, FALSE)
      ELSE IF isdir(files, t.words) /\ index \notin files
      THEN Reply(200, <<>>, <<"Content-type", "Content-Length">>, FALSE)
      ELSE IF file \notin files \/ (~isdir(files, t.words) /\ t.trailing_slash)
      THEN send_error(404)
      ELSE IF not_modified
      THEN Reply(304, file, <<>>, FALSE)
      ELSE Reply(200, file, <<"Content-type", "Content-Length", "Last-Modified">>, FALSE)

\* BaseHTTPRequestHandler.handle_one_request: do_GET and do_HEAD exist, any
\* other method is answered 501 by send_error.
dispatch(method, path, files, not_modified) ==
  IF method \in {"GET", "HEAD"} THEN send_head(path, files, not_modified)
  ELSE send_error(501)

\* The log_message calls of one reply, in order: send_error calls
\* log_error("code %d, message %s", code, message), and send_response calls
\* log_request, that is log_message('"%s" %s %s', requestline, str(code), '-').
log_calls_of(reply, requestline) ==
  (IF reply.is_error
   THEN <<[format |-> "code %d, message %s",
           args   |-> <<IntArg(Str(reply.code)), StrArg(<<"m", "s", "g">>)>>]>>
   ELSE <<>>)
  \o <<[format |-> "\"%s\" %s %s",
        args   |-> <<StrArg(requestline), StrArg(Str(reply.code)), StrArg(<<"-">>)>>]>>

\* send_response and the handler's own send_header calls, up to end_headers.
RECURSIVE default_headers(_, _)
default_headers(buffer, names) ==
  IF names = <<>> THEN buffer
  ELSE default_headers(send_header(buffer, names[1], "default"), Tail(names))

send_response(reply) ==
  default_headers(<<Header(STATUS, StatusLine(reply.code))>>,
                  <<"Server", "Date">> \o reply.headers)

\* ------------------------------------------------------------ the inputs

APP_JS == <<"a", "p", "p", ".", "j", "s">>

LOGO_PNG == <<"l", "o", "g", "o", ".", "p", "n", "g">>

JS_DIR == <<"j", "s">>

\* The request paths sent to the running server.
RequestPaths ==
  {<<"/">>,
   <<"/", "s", "w", ".", "j", "s">>,
   <<"/", "m", "a", "n", "i", "f", "e", "s", "t", ".", "j", "s", "o", "n">>,
   <<"/", "i", "n", "d", "e", "x", ".", "h", "t", "m", "l">>,
   <<"/", "j", "s", "/", "a", "p", "p", ".", "j", "s">>,
   <<"/", "j", "s">>,
   <<"/", "j", "s", "/">>,
   <<"/", "l", "o", "g", "o", ".", "p", "n", "g">>,
   <<"/", "m", "i", "s", "s", "i", "n", "g", ".", "j", "s">>,
   <<"/", "s", "w", "%", "2", "E", "j", "s">>,
   <<"/", "s", "w", ".", "j", "s", "?", "v", "=", "2">>,
   <<"/", "l", "o", "g", "o", ".", "p", "n", "g", "?", "n", "e", "x", "t", "=", "/", "s", "w", ".", "j", "s">>,
   <<"/", "S", "W", ".", "J", "S">>,
   <<"/", "a", "/", "s", "w", ".", "j", "s">>,
   <<"/", "s", "t", "y", "l", "e", "s", ".", "c", "s", "s", "?", "x", "=", "1">>,
   <<"/", ".", "h", "t", "m", "l">>,
   <<"/", "s", "w", ".", "j", "s", "/">>}

\* Directory parts, final path segments and query or fragment suffixes of the
\* request paths the header policy is applied to.
PathPrefixes ==
  {<<"/">>,
   <<"/", "a", "/">>,
   <<"/", "a", ".", "b", "/">>}

\* Final path segments.
PathNames ==
  {<<>>,
   <<"s", "w", ".", "j", "s">>,
   <<"m", "a", "n", "i", "f", "e", "s", "t", ".", "j", "s", "o", "n">>,
   <<"S", "W", ".", "J", "S">>,
   <<"A", "p", "p", ".", "J", "S">>,
   <<"M", "a", "n", "i", "f", "e", "s", "t", ".", "j", "s", "o", "n">>,
   <<"a", "p", "p", ".", "j", "s">>,
   <<"a", "p", "p", ".", "m", "i", "n", ".", "j", "s">>,
   <<"a", ".", "b", ".", "j", "s">>,
   <<"s", "t", "y", "l", "e", "s", ".", "c", "s", "s">>,
   <<"i", "n", "d", "e", "x", ".", "h", "t", "m", "l">>,
   <<"l", "o", "g", "o", ".", "p", "n", "g">>,
   <<"x", "s", "w", ".", "j", "s", ".", "b", "a", "k">>,
   <<".", "h", "t", "m", "l">>,
   <<".", "j", "s">>,
   <<".", ".", "c", "s", "s">>,
   <<"a", ".">>,
   <<"s", "w", "%", "2", "E", "j", "s">>,
   <<"j", "s">>}

\* Query strings and fragments.
PathSuffixes ==
  {<<>>,
   <<"?", "v", "=", "2">>,
   <<"#", "f", "r", "a", "g">>,
   <<"?", "n", "e", "x", "t", "=", "/", "s", "w", ".", "j", "s">>,
   <<"#", "a", "/", "b", ".", "p", "n", "g">>,
   <<"?", "a", "#", "b">>,
   <<"#", "a", "?", "b", "/", "c", ".", "j", "s">>}

Alphabet == {"/", ".", "?", "#", "j", "s", "w"}

Strings(n) == UNION {[1..k -> Alphabet] : k \in 0..n}

\* Every path '/' + body with body of at most MaxLen characters of Alphabet,
\* and every prefix + name + suffix.
PolicyPaths ==
  {<<"/">> \o b : b \in Strings(MaxLen)}
    \cup {d \o n \o q : d \in PathPrefixes, n \in PathNames, q \in PathSuffixes}

Methods == {"GET", "HEAD", "POST"}

MethodChars(m) ==
  CASE m = "GET" -> <<"G", "E", "T">>
    [] m = "HEAD" -> <<"H", "E", "A", "D">>
    [] m = "POST" -> <<"P", "O", "S", "T">>

\* The regular files below the serve directory, each as its path components.
GridDownFiles ==
  {<<SW_JS>>, <<MANIFEST_JSON>>, <<INDEX_HTML>>, <<LOGO_PNG>>, <<JS_DIR, APP_JS>>}

\* Serve directories main may be pointed at: the GridDown root, a directory
\* without sw.js, and one where sw.js is a directory.
Disks ==
  {GridDownFiles,
   GridDownFiles \ {<<SW_JS>>},
   (GridDownFiles \ {<<SW_JS>>}) \cup {<<SW_JS, INDEX_HTML>>}}

\* -------------------------------------------------------------- the state

VARIABLES
  pc,                    \* where main stands
  args,                  \* argparse's result: dir, verbose
  serve_dir,             \* main's serve_dir
  cwd,                   \* the process's working directory
  disk,                  \* the regular files below the serve directory
  sw_js_isfile,          \* what main's os.path.isfile(serve_dir/sw.js) returned
  stdout,                \* what main has printed
  exit_status,           \* the process's exit status, "none" while it runs
  socket,                \* the HTTPServer's listening socket
  log_message_impl,      \* the class whose log_message GridDownHandler.log_message is
  NO_CACHE_FILES,        \* module global
  REVALIDATE_EXTENSIONS, \* module global
  hpc,                   \* where the handler of the current request stands
  req,                   \* the current request and what the static server made of it
  headers_buffer,        \* the handler's _headers_buffer
  wfile,                 \* the header lines written to the connection
  log_calls,             \* the log_message calls of the current request
  stderr,                \* the calls among them that wrote a log line
  observed               \* a response a client has kept: path, status, policy headers

main_vars ==
  <<pc, args, serve_dir, cwd, sw_js_isfile, stdout, exit_status, socket, log_message_impl>>

globals == <<NO_CACHE_FILES, REVALIDATE_EXTENSIONS>>

handler_vars == <<hpc, req, headers_buffer, wfile, log_calls, stderr>>

vars == <<main_vars, globals, handler_vars, disk, observed>>

NoRequest == [path |-> <<>>, method |-> "", code |-> 0, served |-> <<>>]

NoResponse == [path |-> <<>>, code |-> 0, policy |-> <<>>]

Init ==
  /\ pc = "parse_args"
  /\ args = [dir |-> "", verbose |-> FALSE]
  /\ serve_dir = ""
  /\ cwd = "launch_dir"
  /\ disk \in Disks
  /\ sw_js_isfile = "not called"
  /\ stdout = <<>>
  /\ exit_status = "none"
  /\ socket = "none"
  /\ log_message_impl = "GridDownHandler"
  /\ NO_CACHE_FILES = NO_CACHE_FILES_0
  /\ REVALIDATE_EXTENSIONS = REVALIDATE_EXTENSIONS_0
  /\ hpc = "idle"
  /\ req = NoRequest
  /\ headers_buffer = <<>>
  /\ wfile = <<>>
  /\ log_calls = <<>>
  /\ stderr = <<>>
  /\ observed = NoResponse

\* ------------------------------------------------------------------ main

\* args = parser.parse_args()
parse_args ==
  /\ pc = "parse_args"
  /\ \E d \in {"", "~/GridDown"}, v \in BOOLEAN : args' = [dir |-> d, verbose |-> v]
  /\ pc' = "serve_dir"
  /\ UNCHANGED <<serve_dir, cwd, sw_js_isfile, stdout, exit_status, socket,
                 log_message_impl, globals, handler_vars, disk, observed>>

\* if args.dir: serve_dir = os.path.expanduser(args.dir) else: the script's
\* parent's parent.
determine_serve_dir ==
  /\ pc = "serve_dir"
  /\ serve_dir' = IF args.dir # "" THEN "expanduser(args.dir)" ELSE "script_root"
  /\ pc' = "isfile"
  /\ UNCHANGED <<args, cwd, sw_js_isfile, stdout, exit_status, socket,
                 log_message_impl, globals, handler_vars, disk, observed>>

\* Variant of check_marker: main goes on whatever isfile returns.
check_marker_never_exits ==
  /\ pc = "isfile"
  /\ sw_js_isfile' = IF <<SW_JS>> \in disk THEN "True" ELSE "False"
  /\ pc' = "chdir"
  /\ UNCHANGED <<args, serve_dir, cwd, stdout, exit_status, socket, log_message_impl,
                 globals, handler_vars, disk, observed>>

\* if not os.path.isfile(os.path.join(serve_dir, 'sw.js')): print; sys.exit(1)
check_marker ==
  /\ pc = "isfile"
  /\ sw_js_isfile' = IF <<SW_JS>> \in disk THEN "True" ELSE "False"
  /\ IF <<SW_JS>> \notin disk
     THEN /\ stdout' = stdout \o <<"Error: sw.js not found",
                                   "Make sure you're serving the GridDown directory.">>
          /\ exit_status' = "1"
          /\ pc' = "exited"
     ELSE /\ pc' = "chdir"
          /\ UNCHANGED <<stdout, exit_status>>
  /\ UNCHANGED <<args, serve_dir, cwd, socket, log_message_impl,
                 globals, handler_vars, disk, observed>>

\* os.chdir(serve_dir)
chdir ==
  /\ pc = "chdir"
  /\ cwd' = serve_dir
  /\ pc' = "verbose"
  /\ UNCHANGED <<args, serve_dir, sw_js_isfile, stdout, exit_status, socket,
                 log_message_impl, globals, handler_vars, disk, observed>>

\* if args.verbose: GridDownHandler.log_message = SimpleHTTPRequestHandler.log_message
restore_logging ==
  /\ pc = "verbose"
  /\ log_message_impl' =
       IF args.verbose THEN "SimpleHTTPRequestHandler" ELSE log_message_impl
  /\ pc' = "bind"
  /\ UNCHANGED <<args, serve_dir, cwd, sw_js_isfile, stdout, exit_status, socket,
                 globals, handler_vars, disk, observed>>

\* server = http.server.HTTPServer(('0.0.0.0', args.port), GridDownHandler):
\* the socket is bound and listens, or the constructor raises OSError and the
\* process dies of it.
bind ==
  /\ pc = "bind"
  /\ \E in_use \in BOOLEAN :
       IF in_use
       THEN /\ pc' = "crashed"
            /\ exit_status' = "1"
            /\ UNCHANGED socket
       ELSE /\ pc' = "banner"
            /\ socket' = "listening"
            /\ UNCHANGED exit_status
  /\ UNCHANGED <<args, serve_dir, cwd, sw_js_isfile, stdout, log_message_impl,
                 globals, handler_vars, disk, observed>>

\* The startup banner, then server.serve_forever().
banner ==
  /\ pc = "banner"
  /\ stdout' = stdout \o <<"GridDown server v1.0", "Press Ctrl+C to stop.">>
  /\ pc' = "serve_forever"
  /\ UNCHANGED <<args, serve_dir, cwd, sw_js_isfile, exit_status, socket,
                 log_message_impl, globals, handler_vars, disk, observed>>

\* except KeyboardInterrupt: print("\nServer stopped."); server.server_close()
\* The process ends, and with it the handler of a request in progress.
keyboard_interrupt ==
  /\ pc = "serve_forever"
  /\ stdout' = Append(stdout, "Server stopped.")
  /\ socket' = "closed"
  /\ exit_status' = "0"
  /\ pc' = "stopped"
  /\ hpc' = "idle"
  /\ req' = NoRequest
  /\ headers_buffer' = <<>>
  /\ wfile' = <<>>
  /\ log_calls' = <<>>
  /\ stderr' = <<>>
  /\ UNCHANGED <<args, serve_dir, cwd, sw_js_isfile, log_message_impl, globals, disk,
                 observed>>

\* ------------------------------------------------------- request handling

\* GridDownHandler.log_message as main left it bound.
writes_line(call) ==
  IF log_message_impl = "GridDownHandler"
  THEN log_message(call.format, call.args)
  ELSE base_log_message(call.format, call.args)

\* The policy headers among header lines, in the order they were sent.
PolicyLines(lines) == SelectSeq(lines, LAMBDA l : l.name \in POLICY_HEADER_NAMES)

\* The inherited handler reads a request of the accepted connection (its path
\* among `paths`, its method among `methods`, conditional or not), resolves it
\* and sends the status line and its own headers into the buffer; its
\* send_response and send_error log through self.log_message.
handle_one_request(paths, methods, conditional) ==
  /\ pc = "serve_forever"
  /\ hpc = "idle"
  /\ \E path \in paths, method \in methods, not_modified \in conditional :
       LET reply == dispatch(method, path, disk, not_modified)
           calls == log_calls_of(reply, MethodChars(method) \o <<" ">> \o path)
       IN  /\ req' = [path |-> path, method |-> method,
                      code |-> reply.code, served |-> reply.served]
           /\ headers_buffer' = send_response(reply)
           /\ log_calls' = calls
           /\ stderr' = SelectSeq(calls, writes_line)
  /\ wfile' = <<>>
  /\ hpc' = "end_headers"
  /\ UNCHANGED <<main_vars, globals, disk, observed>>

\* handle_one_request's except TimeoutError: self.log_error("Request timed
\* out: %r", e), a log call with one argument and no response.
request_timed_out ==
  /\ pc = "serve_forever"
  /\ hpc = "idle"
  /\ LET calls == <<[format |-> "Request timed out: %r",
                     args   |-> <<[t |-> "TimeoutError", v |-> <<>>]>>]>>
     IN  /\ log_calls' = calls
         /\ stderr' = SelectSeq(calls, writes_line)
  /\ UNCHANGED <<main_vars, globals, hpc, req, headers_buffer, wfile, disk, observed>>

\* Variant of do_end_headers: the basename served is added to NO_CACHE_FILES.
do_end_headers_learning ==
  /\ hpc = "end_headers"
  /\ LET h == end_headers([buffer |-> headers_buffer, wfile |-> wfile], req.path,
                          NO_CACHE_FILES, REVALIDATE_EXTENSIONS)
     IN  /\ headers_buffer' = h.buffer
         /\ wfile' = h.wfile
  /\ NO_CACHE_FILES' = NO_CACHE_FILES \cup {request_basename(req.path)}
  /\ hpc' = "sent"
  /\ UNCHANGED <<main_vars, REVALIDATE_EXTENSIONS, req, log_calls, stderr, disk, observed>>

\* GridDownHandler.end_headers, called by the inherited handler.
do_end_headers ==
  /\ hpc = "end_headers"
  /\ LET h == end_headers([buffer |-> headers_buffer, wfile |-> wfile], req.path,
                          NO_CACHE_FILES, REVALIDATE_EXTENSIONS)
     IN  /\ headers_buffer' = h.buffer
         /\ wfile' = h.wfile
  /\ hpc' = "sent"
  /\ UNCHANGED <<main_vars, globals, req, log_calls, stderr, disk, observed>>

\* The body follows and the connection is closed; the handler instance, with
\* its buffer, is gone. A client may keep what it received.
finish_request(keep) ==
  /\ hpc = "sent"
  /\ observed' = IF keep
                 THEN [path |-> req.path, code |-> req.code,
                       policy |-> PolicyLines(wfile)]
                 ELSE observed
  /\ hpc' = "idle"
  /\ req' = NoRequest
  /\ headers_buffer' = <<>>
  /\ wfile' = <<>>
  /\ log_calls' = <<>>
  /\ stderr' = <<>>
  /\ UNCHANGED <<main_vars, globals, disk>>

\* The serve directory changes under the running process (an update pulls or
\* removes sw.js).
unlink_sw_js ==
  /\ pc \notin {"exited", "crashed", "stopped"}
  /\ <<SW_JS>> \in disk
  /\ disk' = disk \ {<<SW_JS>>}
  /\ UNCHANGED <<main_vars, globals, handler_vars, observed>>

write_sw_js ==
  /\ pc \notin {"exited", "crashed", "stopped"}
  /\ <<SW_JS>> \notin disk
  /\ ~isdir(disk, <<SW_JS>>)
  /\ disk' = disk \cup {<<SW_JS>>}
  /\ UNCHANGED <<main_vars, globals, handler_vars, observed>>

\* ------------------------------------------------------ specifications

Startup ==
  \/ parse_args
  \/ determine_serve_dir
  \/ check_marker
  \/ chdir
  \/ restore_logging
  \/ bind
  \/ banner
  \/ keyboard_interrupt

\* The server: startup, requests on the paths of RequestPaths by any method,
\* and the serve directory changing underneath.
Next ==
  \/ Startup
  \/ handle_one_request(RequestPaths, Methods, BOOLEAN)
  \/ request_timed_out
  \/ do_end_headers
  \/ \E keep \in BOOLEAN : finish_request(keep)
  \/ unlink_sw_js
  \/ write_sw_js

Spec == Init /\ [][Next]_vars

\* The header policy: startup, then GET requests on every path of PolicyPaths.
PolicyNext ==
  \/ Startup
  \/ handle_one_request(PolicyPaths, {"GET"}, {FALSE})
  \/ do_end_headers
  \/ finish_request(FALSE)

PolicySpec == Init /\ [][PolicyNext]_vars

\* ------------------------------------------------------------ the claims

\* The terms of the specification, stated on the request path itself.

\* The path with its query string and fragment removed: everything before the
\* first '?' or '#'.
PathOnly(path) ==
  LET cut == {i \in 1..Len(path) : path[i] \in {"?", "#"}}
  IN  IF cut = {} THEN path ELSE SubSeq(path, 1, Min(cut) - 1)

\* Basename: the final segment of PathOnly(path).
Basename(path) ==
  LET q       == PathOnly(path)
      slashes == {i \in 1..Len(q) : q[i] = "/"}
  IN  IF slashes = {} THEN q ELSE SubSeq(q, Max(slashes) + 1, Len(q))

\* The substring of a name from its last '.', the dot included; empty if the
\* name has no '.'.
LastDotSuffix(name) ==
  LET dots == {i \in 1..Len(name) : name[i] = "."}
  IN  IF dots = {} THEN <<>> ELSE SubSeq(name, Max(dots), Len(name))

\* Extension: LastDotSuffix(name) when a character other than '.' stands before
\* the last dot; empty for a name with no dot or with only dots before it.
Extension(name) ==
  LET dots == {i \in 1..Len(name) : name[i] = "."}
  IN  IF dots # {} /\ \E k \in 1..(Max(dots) - 1) : name[k] # "."
      THEN SubSeq(name, Max(dots), Len(name))
      ELSE <<>>

NoCacheSet == {SW_JS, MANIFEST_JSON}

RevalidateExtensionSet ==
  {<<".", "j", "s">>, <<".", "c", "s", "s">>, <<".", "h", "t", "m", "l">>}

ThreeNoCacheHeaders ==
  <<Header("Cache-Control", "no-cache, no-store, must-revalidate"),
    Header("Pragma", "no-cache"),
    Header("Expires", "0")>>

OneRevalidateHeader == <<Header("Cache-Control", "no-cache")>>

\* The lines the static server sends of its own accord.
StaticServerLines ==
  {STATUS, END_OF_HEADERS, "Server", "Date", "Connection", "Content-Type",
   "Content-type", "Content-Length", "Last-Modified", "Location"}

\* The header lines on the wire that the static server did not send itself.
Injected(lines) == SelectSeq(lines, LAMBDA l : l.name \notin StaticServerLines)

\* end_headers has run for the current request.
HeadersSent == hpc = "sent"

HasQueryOrFragment(path) == \E i \in 1..Len(path) : path[i] \in {"?", "#"}

SW_JS_UPPER == <<"S", "W", ".", "J", "S">>

APP_JS_UPPER == <<"A", "p", "p", ".", "J", "S">>

XSW_JS_BAK == <<"x", "s", "w", ".", "j", "s", ".", "b", "a", "k">>

APP_MIN_JS == <<"a", "p", "p", ".", "m", "i", "n", ".", "j", "s">>

\* C1: whenever the basename of the request path is in the No-Cache Set, the
\* headers end_headers adds are exactly Cache-Control: no-cache, no-store,
\* must-revalidate, Pragma: no-cache and Expires: 0, never the single
\* revalidate header, although the extension of sw.js is in the Revalidate
\* Extension Set.
C1_NoCachePrecedence ==
  (HeadersSent /\ Basename(req.path) \in NoCacheSet)
    => Injected(wfile) = ThreeNoCacheHeaders

C1_Witness ==
  /\ HeadersSent
  /\ Basename(req.path) = SW_JS
  /\ Extension(SW_JS) \in RevalidateExtensionSet
  /\ HasQueryOrFragment(req.path)
  /\ Injected(wfile) = ThreeNoCacheHeaders

C3_NeitherSetNoHeader ==
  HeadersSent =>
    LET name == Basename(req.path)
    IN  /\ (name \notin NoCacheSet /\ Extension(name) \notin RevalidateExtensionSet)
             => Injected(wfile) = <<>>
        /\ name \notin NoCacheSet => Injected(wfile) # ThreeNoCacheHeaders
        /\ Extension(name) \notin RevalidateExtensionSet
             => Injected(wfile) # OneRevalidateHeader
        /\ name \in {<<>>, SW_JS_UPPER, APP_JS_UPPER, XSW_JS_BAK} => Injected(wfile) = <<>>

C3_Witness ==
  /\ HeadersSent
  /\ Basename(req.path) = SW_JS_UPPER
  /\ Injected(wfile) = <<>>

\* C4: a query string or fragment does not change the classification: the
\* headers added for a path p + s, s beginning with '?' or '#' and p free of
\* both, are the headers end_headers adds for p, whatever s contains.
C4_QueryAndFragmentIgnored ==
  (HeadersSent /\ HasQueryOrFragment(req.path))
    => Injected(wfile)
         = Injected(end_headers([buffer |-> <<>>, wfile |-> <<>>], PathOnly(req.path),
                                NO_CACHE_FILES, REVALIDATE_EXTENSIONS).wfile)

C4_Witness ==
  /\ HeadersSent
  /\ PathOnly(req.path) = <<"/">> \o LOGO_PNG
  /\ \E i \in 1..Len(req.path) : req.path[i] = "?"
  /\ Basename(SubSeq(req.path, Len(PathOnly(req.path)) + 2, Len(req.path))) = SW_JS
  /\ Injected(wfile) = <<>>

\* C5, as stated: the extension end_headers classifies by is the substring of
\* the basename from its last '.', empty only if the basename has no '.', also
\* for .html, .js and ..css.
C5_ExtensionIsLastDotSuffix ==
  HeadersSent =>
    LET name == Basename(req.path)
    IN  /\ request_ext(request_basename(req.path)) = LastDotSuffix(name)
        /\ (name \notin NoCacheSet /\ LastDotSuffix(name) \in RevalidateExtensionSet)
             => Injected(wfile) = OneRevalidateHeader

\* C5, amended: the extension end_headers classifies by is the substring of the
\* basename from its last '.' when a character other than '.' stands before
\* that dot (a.b.js and app.min.js classify as .js), and is empty when the
\* basename has no '.' or only dots before its last dot (.html, .js, ..css).
C5_ExtensionOfSplitext ==
  HeadersSent =>
    LET name == Basename(req.path)
    IN  /\ request_ext(request_basename(req.path)) = Extension(name)
        /\ name \notin NoCacheSet
             => (Injected(wfile) = OneRevalidateHeader
                   <=> Extension(name) \in RevalidateExtensionSet)

C5_Witness ==
  /\ HeadersSent
  /\ Basename(req.path) = <<".", "j", "s">>
  /\ LastDotSuffix(Basename(req.path)) \in RevalidateExtensionSet
  /\ Injected(wfile) = <<>>

\* The header lines on the wire include the header (name, value).
OnWire(name, value) == \E i \in 1..Len(wfile) : wfile[i] = Header(name, value)

\* The basename of the file whose content the static server serves.
ResolvedBasename == req.served[Len(req.served)]

\* C6: for a GET or HEAD request answered with a file, the response carries
\* the three no-cache headers when the basename of the file served (after
\* percent-decoding, or index.html for a directory) is sw.js or manifest.json,
\* Cache-Control: no-cache when its extension is .js, .css or .html, and
\* nothing but the static server's headers otherwise.
C6_WireContract ==
  (HeadersSent /\ req.method \in {"GET", "HEAD"} /\ req.served # <<>>)
    => /\ ResolvedBasename \in NoCacheSet
            => /\ OnWire("Cache-Control", "no-cache, no-store, must-revalidate")
               /\ OnWire("Pragma", "no-cache")
               /\ OnWire("Expires", "0")
       /\ (/\ ResolvedBasename \notin NoCacheSet
           /\ LastDotSuffix(ResolvedBasename) \in RevalidateExtensionSet)
            => OnWire("Cache-Control", "no-cache")
       /\ (/\ ResolvedBasename \notin NoCacheSet
           /\ LastDotSuffix(ResolvedBasename) \notin RevalidateExtensionSet)
            => Injected(wfile) = <<>>

\* C7: the socket is bound only after the serve directory is resolved, isfile
\* has found sw.js in it and the working directory is that directory; when
\* isfile finds no sw.js the process prints the error and exits with status 1,
\* with no socket bound, the working directory unchanged and log_message not
\* rebound.
C7_StartupOrdering ==
  /\ socket # "none"
       => /\ serve_dir # ""
          /\ sw_js_isfile = "True"
          /\ cwd = serve_dir
  /\ sw_js_isfile = "False"
       => /\ pc = "exited"
          /\ exit_status = "1"
          /\ Len(stdout) > 0 /\ stdout[1] = "Error: sw.js not found"
          /\ socket = "none"
          /\ cwd = "launch_dir"
          /\ log_message_impl = "GridDownHandler"

C7_Witness ==
  /\ pc = "exited"
  /\ args.verbose
  /\ sw_js_isfile = "False"
  /\ socket = "none"

\* The log call send_response makes for the current request was written.
RequestLineLogged ==
  \E i \in 1..Len(stderr) :
    /\ Len(stderr[i].args) = 3
    /\ stderr[i].args[2] = StrArg(Str(req.code))

\* C8: without --verbose no line is written for a 2xx or 3xx response, the
\* request line of every 4xx or 5xx response is written, and a log call writes
\* a line exactly when its second argument is a string beginning with '4' or
\* '5'; with --verbose every log call writes a line.
C8_AccessLogFilter ==
  pc = "serve_forever" =>
    /\ (~args.verbose /\ hpc # "idle")
         => /\ req.code \in 200..399 => stderr = <<>>
            /\ req.code \in 400..599 => RequestLineLogged
    /\ ~args.verbose
         => stderr = SelectSeq(log_calls,
                       LAMBDA c : /\ Len(c.args) > 1
                                  /\ c.args[2].t = "str"
                                  /\ Len(c.args[2].v) > 0
                                  /\ c.args[2].v[1] \in {"4", "5"})
    /\ args.verbose => stderr = log_calls

C8_Witness ==
  /\ pc = "serve_forever"
  /\ ~args.verbose
  /\ HeadersSent
  /\ req.code = 404
  /\ Len(log_calls) = 2
  /\ Len(stderr) = 1
  /\ RequestLineLogged

\* C9: the headers added to a response are a function of its request path
\* alone: a response to a path a client has seen answered before carries the
\* same policy headers, and the two sets keep the values they had at startup.
C9_PolicyStateless ==
  /\ NO_CACHE_FILES = NoCacheSet
  /\ REVALIDATE_EXTENSIONS = RevalidateExtensionSet
  /\ (HeadersSent /\ observed # NoResponse /\ observed.path = req.path)
       => PolicyLines(wfile) = observed.policy

C9_Witness ==
  /\ HeadersSent
  /\ observed # NoResponse
  /\ observed.path = req.path
  /\ observed.policy = OneRevalidateHeader
  /\ PolicyLines(wfile) = OneRevalidateHeader

\* The headers the policy gives a path, whatever the response.
PolicyOf(path) ==
  IF Basename(path) \in NoCacheSet THEN ThreeNoCacheHeaders
  ELSE IF Extension(Basename(path)) \in RevalidateExtensionSet THEN OneRevalidateHeader
  ELSE <<>>

\* C10: when end_headers returns, the policy headers of the request path stand
\* on the wire before the blank line that ends the header block, nothing is
\* left in the buffer, and they are the same for every status: an error or a
\* redirect carries what a 200 for the same path carries.
C10_InjectedBeforeFinalization ==
  HeadersSent =>
    /\ headers_buffer = <<>>
    /\ Len(wfile) > 0
    /\ wfile[Len(wfile)].name = END_OF_HEADERS
    /\ \A i \in 1..(Len(wfile) - 1) : wfile[i].name # END_OF_HEADERS
    /\ Injected(wfile) = PolicyOf(req.path)
    /\ (observed.path = req.path /\ observed.code # 0)
         => Injected(wfile) = observed.policy

C10_Witness ==
  /\ HeadersSent
  /\ req.code = 404
  /\ req.path = <<"/">> \o SW_JS
  /\ observed.path = req.path
  /\ observed.code = 200
  /\ Injected(wfile) = ThreeNoCacheHeaders
  /\ wfile[Len(wfile)].name = END_OF_HEADERS

====
